---- MODULE Spec2Model ----
(***************************************************************************)
(* Myers shortest-edit-script diff: the diagonal store (BipolarArray), the *)
(* forward search (findShortestEdit), the backtracker (findBacktrack), the *)
(* entry point diffLines and the unified-patch renderer (formatPatch).     *)
(*                                                                         *)
(* A line text is a sequence of one-character strings, so that prefixes,   *)
(* joins and comparisons with the empty text are computed, not assumed.    *)
(* A behaviour is a session on one pair of inputs: the exported operations *)
(* are called one after the other, each running to completion.             *)
(***************************************************************************)
EXTENDS Integers, Sequences, FiniteSets, TLC

\* ------------------------------------------------------------------ bounds
MaxLen == 3
MaxOps == 5
MaxStr == 3
MaxCap == 2

\* ------------------------------------------------------- input alphabets
Texts == { <<>>, <<"a">> }
Schemes == { "ordinal", "shifted" }

\* ------------------------------------------------------------- JS values
\* `undefined` as an array element, and as the text read through `?.text`
UndefText == <<"undefined">>
Undefined == [number |-> -1, text |-> UndefText]

Max(a, b) == IF a >= b THEN a ELSE b
Min(a, b) == IF a <= b THEN a ELSE b

\* array[i] with JS semantics: zero-based, undefined outside the array
At(lines, i) == IF i >= 0 /\ i < Len(lines) THEN lines[i + 1] ELSE Undefined

\* line?.text
TextOf(line) == IF line = Undefined THEN UndefText ELSE line.text

createLine(number, text) == [number |-> number, text |-> text]

createEdit(type, oldLine, newLine) ==
  [type |-> type, oldLine |-> oldLine, newLine |-> newLine]

\* the number field a caller of diffLines puts on the line at position i
NumberOf(scheme, i) == IF scheme = "ordinal" THEN i ELSE i + MaxLen

MakeLines(texts, scheme) ==
  [i \in 1..Len(texts) |-> createLine(NumberOf(scheme, i), texts[i])]

TextsOf(lines) == [i \in 1..Len(lines) |-> lines[i].text]

SeqsUpTo(S, n) == UNION { [1..l -> S] : l \in 0..n }

\* ------------------------------------------------------------ splitLines
NL == "\n"

\* a value whose typeof is not 'string'
NotAString == <<"not a string">>

\* mutant: the typeof guard left out
IsStringUnchecked(str) == TRUE

\* typeof str === 'string'
IsString(str) == str # NotAString

\* str.split('\n'): cur is the piece being read
RECURSIVE SplitAcc(_, _)
SplitAcc(str, cur) ==
  IF str = <<>> THEN <<cur>>
  ELSE IF Head(str) = NL THEN <<cur>> \o SplitAcc(Tail(str), <<>>)
  ELSE SplitAcc(Tail(str), Append(cur, Head(str)))

SplitNL(str) == SplitAcc(str, <<>>)

\* mutant: a trailing empty piece is not made a line
splitLinesTrimmed(str) ==
  LET parts == SplitNL(str)
      kept  == IF parts[Len(parts)] = <<>> THEN Len(parts) - 1 ELSE Len(parts)
  IN  [j \in 1..kept |-> createLine(j, parts[j])]

\* splitLines(str) for a string: no line for '', else one line per piece,
\* numbered from 1
splitLines(str) ==
  IF str = <<>> THEN <<>>
  ELSE LET parts == SplitNL(str)
       IN  [j \in 1..Len(parts) |-> createLine(j, parts[j])]

\* ------------------------------------------------------- BipolarArray<T>
\* array is the backing block, slot s of the code is array[s + 1] here
NewBipolarArray(capacity, defaultValue) ==
  [array |-> [s \in 1..capacity |-> defaultValue], capacity |-> capacity]

\* mutant: the negative half resolved with the sign of the index dropped
OffsetSignSlip(b, index) == IF index < 0 THEN b.capacity - index ELSE index

\* mutant: a negative index resolved to the slot of its absolute value
OffsetMirrored(b, index) == IF index < 0 THEN -index ELSE index

\* the slot a logical index resolves to
Offset(b, index) == IF index < 0 THEN b.capacity + index ELSE index

\* get() throws exactly when the resolved slot holds undefined, i.e. lies
\* outside the backing block (every slot of the block holds a number)
InBlock(b, index) == Offset(b, index) >= 0 /\ Offset(b, index) < b.capacity

Get(b, index) == b.array[Offset(b, index) + 1]

\* what the store holds for a logical index, read without get()
Stored(b, index) == IF InBlock(b, index) THEN Get(b, index) ELSE 0

\* set() on a slot of the block; the search only writes k in [-d, d]
Set(b, index, value) ==
  IF InBlock(b, index)
    THEN [b EXCEPT !.array[Offset(b, index) + 1] = value]
    ELSE b

\* mutant: the new block is allocated but the slots are not copied over
CopyDefaultsOnly(b) == NewBipolarArray(b.capacity, b.array[1])

\* mutant: the copy loop stops one slot early
CopyMissingLast(b) ==
  [NewBipolarArray(b.capacity, b.array[1]) EXCEPT
     !.array = [s \in 1..b.capacity |->
                  IF s < b.capacity THEN b.array[s] ELSE b.array[1]]]

\* copy(): a new block filled with array[0], then every slot copied over.
\* The throw on an undefined array[0] needs an empty block; the search
\* allocates 2 * (n + m) + 1 >= 3 slots, all holding numbers.
Copy(b) ==
  LET fresh == NewBipolarArray(b.capacity, b.array[1])
  IN  [fresh EXCEPT !.array = [s \in 1..b.capacity |-> b.array[s]]]

\* mutant: ties between the two neighbours broken towards k + 1
TakeDownOnTie(v, k, d) == k = -d \/ (k # d /\ Get(v, k - 1) <= Get(v, k + 1))

\* ------------------------------------------------- the shared tie-break
\* k === -d || (k !== d && v.get(k - 1) < v.get(k + 1))
TakeDown(v, k, d) == k = -d \/ (k # d /\ Get(v, k - 1) < Get(v, k + 1))

\* mutant: the step to the right taken backwards
StartXStepBack(v, k, d) ==
  IF TakeDown(v, k, d) THEN Get(v, k + 1) ELSE Get(v, k - 1) - 1

\* the x the forward search starts diagonal k from at depth d
StartX(v, k, d) ==
  IF TakeDown(v, k, d) THEN Get(v, k + 1) ELSE Get(v, k - 1) + 1

\* mutant: the neighbour diagonals swapped
PrevKSwapped(v, k, d) == IF TakeDown(v, k, d) THEN k - 1 ELSE k + 1

\* the diagonal the backtracker steps back to from diagonal k at depth d
PrevK(v, k, d) == IF TakeDown(v, k, d) THEN k + 1 ELSE k - 1

\* the logical indices the tie-break and the read that follows it pass to
\* get(), given the short-circuit evaluation
ReadsOf(k, d) ==
  IF k = -d THEN {k + 1}
  ELSE IF k = d THEN {k - 1}
  ELSE {k - 1, k + 1}

\* mutant: whole line records compared, number included
LineEqRecord(a, b) == a = b

\* mutant: the number fields compared instead of the texts
LineEqNumber(a, b) == a.number = b.number

\* oldLines[x]?.text === newLines[y]?.text
LineEq(a, b) == TextOf(a) = TextOf(b)

\* mutant: the snake takes one diagonal step at most (if for while)
SnakeLenOneStep(old, new, x, y) ==
  IF x < Len(old) /\ y < Len(new) /\ LineEq(At(old, x), At(new, y)) THEN 1 ELSE 0

\* number of iterations of the snake loop started at (x, y)
RECURSIVE SnakeLen(_, _, _, _)
SnakeLen(old, new, x, y) ==
  IF x < Len(old) /\ y < Len(new) /\ LineEq(At(old, x), At(new, y))
    THEN 1 + SnakeLen(old, new, x + 1, y + 1)
    ELSE 0

\* mutant: the new side compared strictly
TerminalStrict(x, y, n, m) == x >= n /\ y > m

\* x >= n && y >= m
Terminal(x, y, n, m) == x >= n /\ y >= m

\* mutant: the lines are read before x and y are decremented
RECURSIVE PeelEqualsLate(_, _, _, _, _, _)
PeelEqualsLate(old, new, x, y, prevX, prevY) ==
  IF x > prevX /\ y > prevY
    THEN <<createEdit("equal", At(old, x), At(new, y))>>
         \o PeelEqualsLate(old, new, x - 1, y - 1, prevX, prevY)
    ELSE <<>>

\* the equal operations pushed by the peeling loop started at (x, y)
RECURSIVE PeelEquals(_, _, _, _, _, _)
PeelEquals(old, new, x, y, prevX, prevY) ==
  IF x > prevX /\ y > prevY
    THEN <<createEdit("equal", At(old, x - 1), At(new, y - 1))>>
         \o PeelEquals(old, new, x - 1, y - 1, prevX, prevY)
    ELSE <<>>

\* the zero-based input positions the peeled operations refer to
RECURSIVE PeelIdx(_, _, _, _)
PeelIdx(x, y, prevX, prevY) ==
  IF x > prevX /\ y > prevY
    THEN <<<<x - 1, y - 1>>>> \o PeelIdx(x - 1, y - 1, prevX, prevY)
    ELSE <<>>

\* mutant: the edits returned in the order they were pushed
ReverseForgotten(s) == s

\* mutant: the d > 0 guard around the insert/delete step left out
StepEditUnguarded(old, new, dd, x1, y1, prevX, prevY) ==
  IF x1 = prevX THEN <<createEdit("insert", Undefined, At(new, prevY))>>
  ELSE IF y1 = prevY THEN <<createEdit("delete", At(old, prevX), Undefined)>>
  ELSE <<>>

\* the operation pushed after the peeling loop left (x1, y1), at depth dd
StepEdit(old, new, dd, x1, y1, prevX, prevY) ==
  IF dd > 0
    THEN IF x1 = prevX
           THEN <<createEdit("insert", Undefined, At(new, prevY))>>
         ELSE IF y1 = prevY
           THEN <<createEdit("delete", At(old, prevX), Undefined)>>
         ELSE <<>>
    ELSE <<>>

\* the zero-based input position that operation refers to (-1: no such side)
StepIdx(dd, x1, y1, prevX, prevY) ==
  IF dd > 0
    THEN IF x1 = prevX THEN <<<<-1, prevY>>>>
         ELSE IF y1 = prevY THEN <<<<prevX, -1>>>>
         ELSE <<>>
    ELSE <<>>

\* mutant: the depth before the last one taken as the distance
EditDistanceShort(t) == Len(t) - 2

\* editDistance: trace.length - 1
EditDistance(t) == Len(t) - 1

\* edits.reverse()
Reverse(s) == [i \in 1..Len(s) |-> s[Len(s) + 1 - i]]

\* ----------------------------------------------------------- formatPatch
contextBefore == 3
contextAfter == 3

\* lines.join('\n')
RECURSIVE JoinNL(_)
JoinNL(lines) ==
  IF Len(lines) = 0 THEN <<>>
  ELSE IF Len(lines) = 1 THEN lines[1]
  ELSE lines[1] \o <<NL>> \o JoinNL(Tail(lines))

Digit(j) ==
  CASE j = 0 -> "0" [] j = 1 -> "1" [] j = 2 -> "2" [] j = 3 -> "3"
    [] j = 4 -> "4" [] j = 5 -> "5" [] j = 6 -> "6" [] j = 7 -> "7"
    [] j = 8 -> "8" [] OTHER -> "9"

\* `${number}` of a non-negative integer
RECURSIVE NumStr(_)
NumStr(j) == IF j < 10 THEN <<Digit(j)>> ELSE NumStr(j \div 10) \o <<Digit(j % 10)>>

\* edit.oldLine?.text ?? ''
TextOrEmpty(line) == IF line = Undefined THEN <<>> ELSE line.text

\* the old-side list built by the loop over result.edits
RECURSIVE OldList(_)
OldList(es) ==
  IF es = <<>> THEN <<>>
  ELSE (IF es[1].type \in {"equal", "delete"}
          THEN <<TextOrEmpty(es[1].oldLine)>> ELSE <<>>)
       \o OldList(Tail(es))

\* the new-side list built by the same loop
RECURSIVE NewList(_)
NewList(es) ==
  IF es = <<>> THEN <<>>
  ELSE (IF es[1].type \in {"equal", "insert"}
          THEN <<TextOrEmpty(es[1].newLine)>> ELSE <<>>)
       \o NewList(Tail(es))

\* list[i] !== undefined, the list holding strings only
Present(list, j) == j >= 0 /\ j < Len(list)

\* list[i] ?? ''
EntryOrEmpty(list, j) == IF Present(list, j) THEN list[j + 1] ELSE <<>>

\* the change-region loop from position j on, regionStart being rs, and the
\* push after the loop
RECURSIVE RegionScan(_, _, _, _)
RegionScan(ol, nl, j, rs) ==
  LET L == Max(Len(ol), Len(nl))
  IN  IF j >= L
        THEN (IF rs # -1 THEN <<[start |-> rs, end |-> L - 1]>> ELSE <<>>)
      ELSE IF EntryOrEmpty(ol, j) # EntryOrEmpty(nl, j)
        THEN RegionScan(ol, nl, j + 1, IF rs = -1 THEN j ELSE rs)
      ELSE (IF rs # -1 THEN <<[start |-> rs, end |-> j - 1]>> ELSE <<>>)
           \o RegionScan(ol, nl, j + 1, -1)

ChangeRegions(ol, nl) == RegionScan(ol, nl, 0, -1)

\* mutant: positions counted, whether the list has an entry there or not
CountPositions(list, from, to) == Cardinality(from..to)

\* number of positions in from..to at which the list has an entry
CountPresent(list, from, to) ==
  Cardinality({j \in from..to : Present(list, j)})

\* the one or two lines pushed for window position j
HunkLine(ol, nl, j) ==
  LET o == EntryOrEmpty(ol, j)
      w == EntryOrEmpty(nl, j)
  IN  IF o = w THEN << <<" ">> \o o >>
      ELSE IF o = <<>> THEN << <<"+">> \o w >>
      ELSE IF w = <<>> THEN << <<"-">> \o o >>
      ELSE << <<"-">> \o o, <<"+">> \o w >>

RECURSIVE HunkBody(_, _, _, _)
HunkBody(ol, nl, j, hunkEnd) ==
  IF j > hunkEnd THEN <<>>
  ELSE HunkLine(ol, nl, j) \o HunkBody(ol, nl, j + 1, hunkEnd)

\* `@@ -${oldStart},${oldCount} +${newStart},${newCount} @@`
HunkHeader(oldStart, oldCount, newStart, newCount) ==
  <<"@", "@", " ", "-">> \o NumStr(oldStart) \o <<",">> \o NumStr(oldCount)
  \o <<" ", "+">> \o NumStr(newStart) \o <<",">> \o NumStr(newCount)
  \o <<" ", "@", "@">>

\* the lines pushed for one change region
Hunk(ol, nl, region) ==
  LET hunkStart == Max(0, region.start - contextBefore)
      hunkEnd   == Min(Max(Len(ol), Len(nl)) - 1, region.end + contextAfter)
      oldStart  == 1 + CountPresent(ol, 0, hunkStart - 1)
      newStart  == 1 + CountPresent(nl, 0, hunkStart - 1)
      oldCount  == CountPresent(ol, hunkStart, hunkEnd)
      newCount  == CountPresent(nl, hunkStart, hunkEnd)
  IN  <<HunkHeader(oldStart, oldCount, newStart, newCount)>>
      \o HunkBody(ol, nl, hunkStart, hunkEnd)

RECURSIVE Hunks(_, _, _)
Hunks(ol, nl, regions) ==
  IF regions = <<>> THEN <<>>
  ELSE Hunk(ol, nl, regions[1]) \o Hunks(ol, nl, Tail(regions))

\* `--- ${oldFileName}${oldTimestamp ? '\t' + oldTimestamp : ''}`
HeaderLine(marks, fileName, timestamp) ==
  marks \o <<" ">> \o fileName
  \o (IF timestamp # <<>> THEN <<"\t">> \o timestamp ELSE <<>>)

\* the array `lines` at the end of formatPatch
PatchLines(r, oldFileName, newFileName, oldTimestamp, newTimestamp) ==
  LET ol == OldList(r.edits)
      nl == NewList(r.edits)
  IN  <<HeaderLine(<<"-", "-", "-">>, oldFileName, oldTimestamp),
        HeaderLine(<<"+", "+", "+">>, newFileName, newTimestamp)>>
      \o Hunks(ol, nl, ChangeRegions(ol, nl))

\* an argument the call leaves out
Omitted == <<"omitted">>

\* mutant: the default taken whatever the call passes
DefaultIgnoringArg(arg, default) == default

\* a parameter with a default value
DefaultTo(arg, default) == IF arg = Omitted THEN default ELSE arg

formatPatch(r, oldFileName, newFileName, oldTimestamp, newTimestamp) ==
  JoinNL(PatchLines(r, DefaultTo(oldFileName, <<"o", "l", "d">>),
                    DefaultTo(newFileName, <<"n", "e", "w">>),
                    DefaultTo(oldTimestamp, <<>>),
                    DefaultTo(newTimestamp, <<>>)))

\* ------------------------------------------------------------ formatDiff
\* mutant: the delete and insert marks swapped
FormatDiffLineSwapped(edit) ==
  CASE edit.type = "equal"  -> << <<" ", " ">> \o TextOrEmpty(edit.oldLine) >>
    [] edit.type = "delete" -> << <<"+", " ">> \o TextOrEmpty(edit.oldLine) >>
    [] edit.type = "insert" -> << <<"-", " ">> \o TextOrEmpty(edit.newLine) >>
    [] OTHER -> <<>>

\* the line pushed for one edit; the switch has no default branch
FormatDiffLine(edit) ==
  CASE edit.type = "equal"  -> << <<" ", " ">> \o TextOrEmpty(edit.oldLine) >>
    [] edit.type = "delete" -> << <<"-", " ">> \o TextOrEmpty(edit.oldLine) >>
    [] edit.type = "insert" -> << <<"+", " ">> \o TextOrEmpty(edit.newLine) >>
    [] OTHER -> <<>>

\* mutant: the loop starts at the second edit
DiffTextLinesSkipFirst(es) ==
  IF es = <<>> THEN <<>>
  ELSE [j \in 1..(Len(es) - 1) |-> FormatDiffLine(es[j + 1])[1]]

\* the array `lines` at the end of formatDiff
RECURSIVE DiffTextLines(_)
DiffTextLines(es) ==
  IF es = <<>> THEN <<>> ELSE FormatDiffLine(es[1]) \o DiffTextLines(Tail(es))

formatDiff(r) == JoinNL(DiffTextLines(r.edits))

\* the calls of formatPatch: trailing arguments left out, and an empty old
\* timestamp passed to reach the new one
PatchCalls ==
  { <<Omitted, Omitted, Omitted, Omitted>>,
    <<<<"f">>, Omitted, Omitted, Omitted>>,
    <<<<"f">>, <<"g">>, Omitted, Omitted>>,
    <<<<"f">>, <<"g">>, <<"T">>, Omitted>>,
    <<<<"f">>, <<"g">>, <<"T">>, <<"U">>>>,
    <<<<"f">>, <<"g">>, <<>>, <<"U">>>> }

\* ------------------------------------------------------------------ state
VARIABLES
  oldTexts, newTexts,     \* the line texts of the session's two inputs
  oldLines, newLines,     \* the DiffLine[] arguments of the current calls
  pc,                     \* position of the running call, "idle" between calls
  caller,                 \* who called findShortestEdit: "diffLines", "api"
                          \* (a direct call) or "computeDiff"
  v, trace, d, k,         \* findShortestEdit locals
  x, y, i, edits,         \* findBacktrack locals
  idxs,                   \* for each pushed edit, the positions it refers to
  reads,                  \* logical indices passed to get() by the current call
  err,                    \* the error thrown, "none" if none
  traceRet,               \* TRUE when trace is a value findShortestEdit returned
  result,                 \* the DiffOutput last returned by diffLines
  resultIdx,              \* positions referred to by result.edits
  prev,                   \* shape of the DiffOutput returned before renumbering
  patch,                  \* what formatPatch returned for result, if called
  patchArgs,              \* the names and timestamps of that call
  oldText, newText,       \* the arguments of computeDiff
  diffText,               \* what formatDiff returned for result, if called
  shadow,                 \* for each logical index of the store v, the value
                          \* last set at it, the default if none was
  fwd                     \* for each diagonal the search processed: depth,
                          \* diagonal, the neighbours' stored values, the
                          \* source diagonal, the starting x and the stored x

vars == <<oldTexts, newTexts, oldLines, newLines, pc, caller, v, trace, d, k,
          x, y, i, edits, idxs, reads, err, traceRet, result, resultIdx, prev,
          patch, patchArgs, oldText, newText, diffText, fwd, shadow>>

NoResult == [edits |-> <<>>, editDistance |-> -1]
NoPrev == [set |-> FALSE]
NoPatch == <<"no patch">>
NoArgs == <<>>
NoText == <<"no text">>
NoStore == NewBipolarArray(0, 0)

n == Len(oldLines)
m == Len(newLines)

\* what two results are compared on: distance, operation types, positions
Shape(r, ix) ==
  [set |-> TRUE, editDistance |-> r.editDistance,
   types |-> [j \in 1..Len(r.edits) |-> r.edits[j].type],
   idxs |-> ix,
   oldNumbers |-> [j \in 1..n |-> oldLines[j].number],
   newNumbers |-> [j \in 1..m |-> newLines[j].number]]

Init ==
  /\ oldTexts \in SeqsUpTo(Texts, MaxLen)
  /\ newTexts \in SeqsUpTo(Texts, MaxLen)
  /\ oldLines = MakeLines(oldTexts, "ordinal")
  /\ newLines = MakeLines(newTexts, "ordinal")
  /\ pc = "idle"
  /\ caller = "none"
  /\ v = NoStore
  /\ trace = <<>>
  /\ d = 0
  /\ k = 0
  /\ x = 0
  /\ y = 0
  /\ i = 0
  /\ edits = <<>>
  /\ idxs = <<>>
  /\ reads = {}
  /\ err = "none"
  /\ traceRet = FALSE
  /\ result = NoResult
  /\ resultIdx = <<>>
  /\ prev = NoPrev
  /\ patch = NoPatch
  /\ patchArgs = NoArgs
  /\ oldText = NoText
  /\ newText = NoText
  /\ diffText = NoText
  /\ fwd = <<>>
  /\ shadow = <<>>

\* ------------------------------------------------------------- diffLines
\* a call starts with fresh locals; what the previous call returned to the
\* caller as a patch is no longer the last return value
FreshLocals ==
  /\ v' = NoStore
  /\ d' = 0
  /\ k' = 0
  /\ x' = 0
  /\ y' = 0
  /\ i' = 0
  /\ edits' = <<>>
  /\ idxs' = <<>>
  /\ reads' = {}
  /\ patch' = NoPatch
  /\ patchArgs' = NoArgs
  /\ diffText' = NoText
  /\ fwd' = <<>>
  /\ shadow' = <<>>

\* diffLines(oldLines, newLines): the early return for two empty inputs,
\* otherwise the call of findShortestEdit
DiffLines ==
  /\ pc = "idle"
  /\ FreshLocals
  /\ IF n = 0 /\ m = 0
       THEN /\ result' = [edits |-> <<>>, editDistance |-> 0]
            /\ resultIdx' = <<>>
            /\ UNCHANGED <<pc, caller, trace, traceRet>>
       ELSE /\ pc' = "fse"
            /\ caller' = "diffLines"
            /\ trace' = <<>>
            /\ traceRet' = FALSE
            /\ UNCHANGED <<result, resultIdx>>
  /\ UNCHANGED <<oldTexts, newTexts, oldLines, newLines, err, prev, oldText,
                 newText>>

\* a direct call of the exported findShortestEdit(oldLines, newLines)
FindShortestEditCall ==
  /\ pc = "idle"
  /\ FreshLocals
  /\ pc' = "fse"
  /\ caller' = "api"
  /\ trace' = <<>>
  /\ traceRet' = FALSE
  /\ UNCHANGED <<oldTexts, newTexts, oldLines, newLines, err, result,
                 resultIdx, prev, oldText, newText>>

\* ------------------------------------------------------ findShortestEdit
\* entry: the empty trace for two empty inputs, else the store allocation
FSEEnter ==
  /\ pc = "fse"
  /\ IF n = 0 /\ m = 0
       THEN /\ trace' = <<>>
            /\ traceRet' = TRUE
            /\ pc' = "idle"
            /\ UNCHANGED <<v, d, shadow>>
       ELSE /\ v' = NewBipolarArray(2 * (n + m) + 1, 0)
            /\ shadow' = [kk \in (-(n + m))..(n + m) |-> 0]
            /\ trace' = <<>>
            /\ d' = 0
            /\ pc' = "depth"
            /\ UNCHANGED traceRet
  /\ UNCHANGED <<oldTexts, newTexts, oldLines, newLines, caller, k, x, y, i,
                 edits, idxs, reads, err, result, resultIdx, prev>>
  /\ UNCHANGED <<patch, patchArgs, oldText, newText, diffText, fwd>>

\* head of the depth loop: the snapshot, or the error after the last depth
FSEDepth ==
  /\ pc = "depth"
  /\ IF d <= n + m
       THEN /\ trace' = Append(trace, [v |-> Copy(v), d |-> d])
            /\ k' = -d
            /\ pc' = "diag"
            /\ UNCHANGED err
       ELSE /\ err' = "impossible"
            /\ pc' = "failed"
            /\ UNCHANGED <<trace, k>>
  /\ UNCHANGED <<oldTexts, newTexts, oldLines, newLines, caller, v, d, x, y,
                 i, edits, idxs, reads, traceRet, result, resultIdx, prev>>
  /\ UNCHANGED <<patch, patchArgs, oldText, newText, diffText, fwd, shadow>>

\* one iteration of the diagonal loop
FSEDiag ==
  /\ pc = "diag"
  /\ reads' = reads \cup ReadsOf(k, d)
  /\ IF \E r \in ReadsOf(k, d) : ~InBlock(v, r)
       THEN /\ err' = "oob"
            /\ pc' = "failed"
            /\ UNCHANGED <<v, d, k, x, y, traceRet, fwd, shadow>>
       ELSE LET x0 == StartX(v, k, d)
                y0 == x0 - k
                s  == SnakeLen(oldLines, newLines, x0, y0)
            IN  /\ v' = Set(v, k, x0 + s)
                /\ shadow' = [shadow EXCEPT ![k] = x0 + s]
                /\ fwd' = Append(fwd, [d |-> d, k |-> k, x0 |-> x0,
                                       x |-> x0 + s,
                                       src |-> IF TakeDown(v, k, d)
                                                 THEN k + 1 ELSE k - 1,
                                       left |-> Stored(v, k - 1),
                                       right |-> Stored(v, k + 1)])
                /\ x' = x0 + s
                /\ y' = y0 + s
                /\ UNCHANGED err
                /\ IF Terminal(x0 + s, y0 + s, n, m)
                     THEN /\ traceRet' = TRUE
                          /\ pc' = IF caller = "api" THEN "idle" ELSE "bt"
                          /\ UNCHANGED <<d, k>>
                     ELSE /\ UNCHANGED traceRet
                          /\ IF k + 2 <= d
                               THEN /\ k' = k + 2
                                    /\ pc' = "diag"
                                    /\ UNCHANGED d
                               ELSE /\ d' = d + 1
                                    /\ pc' = "depth"
                                    /\ UNCHANGED k
  /\ UNCHANGED <<oldTexts, newTexts, oldLines, newLines, caller, trace, i,
                 edits, idxs, result, resultIdx, prev>>
  /\ UNCHANGED <<patch, patchArgs, oldText, newText, diffText>>

\* --------------------------------------------------------- findBacktrack
\* entry: x, y, edits and the loop index
BTEnter ==
  /\ pc = "bt"
  /\ x' = n
  /\ y' = m
  /\ edits' = <<>>
  /\ idxs' = <<>>
  /\ i' = Len(trace) - 1
  /\ pc' = "level"
  /\ UNCHANGED <<oldTexts, newTexts, oldLines, newLines, caller, v, trace, d, k,
                 reads, err, traceRet, result, resultIdx, prev>>
  /\ UNCHANGED <<patch, patchArgs, oldText, newText, diffText, fwd, shadow>>

\* one iteration of the trace loop; every trace entry is an object, so the
\* `continue` on a missing entry is never taken
BTLevel ==
  /\ pc = "level"
  /\ i >= 0
  /\ LET e  == trace[i + 1]
         kk == x - y
     IN  /\ reads' = reads \cup ReadsOf(kk, e.d)
         /\ IF \E r \in ReadsOf(kk, e.d) : ~InBlock(e.v, r)
              THEN /\ err' = "oob"
                   /\ pc' = "failed"
                   /\ UNCHANGED <<x, y, i, edits, idxs>>
              ELSE LET prevK == PrevK(e.v, kk, e.d)
                       prevX == Get(e.v, prevK)
                       prevY == prevX - prevK
                       eq    == PeelEquals(oldLines, newLines, x, y, prevX, prevY)
                       x1    == x - Len(eq)
                       y1    == y - Len(eq)
                       step  == StepEdit(oldLines, newLines, e.d, x1, y1,
                                         prevX, prevY)
                       stepIdx == StepIdx(e.d, x1, y1, prevX, prevY)
                   IN  /\ edits' = edits \o eq \o step
                       /\ idxs' = idxs \o PeelIdx(x, y, prevX, prevY) \o stepIdx
                       /\ x' = IF e.d > 0 THEN prevX ELSE x1
                       /\ y' = IF e.d > 0 THEN prevY ELSE y1
                       /\ i' = i - 1
                       /\ pc' = "level"
                       /\ UNCHANGED err
  /\ UNCHANGED <<oldTexts, newTexts, oldLines, newLines, caller, v, trace, d, k,
                 traceRet, result, resultIdx, prev>>
  /\ UNCHANGED <<patch, patchArgs, oldText, newText, diffText, fwd, shadow>>

\* after the loop: the reversed edits, returned to diffLines, which returns
\* them with editDistance = trace.length - 1
BTReturn ==
  /\ pc = "level"
  /\ i < 0
  /\ result' = [edits |-> Reverse(edits), editDistance |-> EditDistance(trace)]
  /\ resultIdx' = Reverse(idxs)
  /\ pc' = "idle"
  /\ UNCHANGED <<oldTexts, newTexts, oldLines, newLines, caller, v, trace, d, k,
                 x, y, i, edits, idxs, reads, err, traceRet, prev, oldText,
                 newText, fwd, shadow>>
  /\ patch' = NoPatch
  /\ patchArgs' = NoArgs
  /\ diffText' = NoText

\* ------------------------------------------------------------ the caller
\* the caller builds new DiffLine records for the same texts, with other
\* number fields, and keeps what the last diffLines call returned
Renumber ==
  /\ pc = "idle"
  /\ result # NoResult
  /\ prev = NoPrev
  /\ \E so \in Schemes, sn \in Schemes :
       /\ oldLines' = MakeLines(oldTexts, so)
       /\ newLines' = MakeLines(newTexts, sn)
       /\ <<oldLines', newLines'>> # <<oldLines, newLines>>
  /\ prev' = Shape(result, resultIdx)
  /\ result' = NoResult
  /\ resultIdx' = <<>>
  /\ trace' = <<>>
  /\ traceRet' = FALSE
  /\ UNCHANGED <<oldTexts, newTexts, pc, caller, v, d, k, x, y, i, edits, idxs,
                 reads, err, oldText, newText>>
  /\ patch' = NoPatch
  /\ patchArgs' = NoArgs
  /\ diffText' = NoText
  /\ fwd' = <<>>
  /\ UNCHANGED shadow

\* ----------------------------------------------------------- formatPatch
\* formatPatch(result, oldFileName, newFileName, oldTimestamp, newTimestamp)
\* on the DiffOutput diffLines returned
FormatPatch ==
  /\ pc = "idle"
  /\ result # NoResult
  /\ patch = NoPatch
  /\ \E call \in PatchCalls :
       /\ patch' = formatPatch(result, call[1], call[2], call[3], call[4])
       /\ patchArgs' = call
  /\ diffText' = NoText
  /\ UNCHANGED <<oldTexts, newTexts, oldLines, newLines, pc, caller, v, trace,
                 d, k, x, y, i, edits, idxs, reads, err, traceRet, result,
                 resultIdx, prev, oldText, newText, fwd, shadow>>

\* ------------------------------------------------------------ formatDiff
\* formatDiff(result) on the DiffOutput at hand
FormatDiff ==
  /\ pc = "idle"
  /\ result # NoResult
  /\ diffText = NoText
  /\ diffText' = formatDiff(result)
  /\ patch' = NoPatch
  /\ patchArgs' = NoArgs
  /\ UNCHANGED <<oldTexts, newTexts, oldLines, newLines, pc, caller, v, trace,
                 d, k, x, y, i, edits, idxs, reads, err, traceRet, result,
                 resultIdx, prev, oldText, newText, fwd, shadow>>

Next ==
  \/ DiffLines
  \/ FindShortestEditCall
  \/ FSEEnter
  \/ FSEDepth
  \/ FSEDiag
  \/ BTEnter
  \/ BTLevel
  \/ BTReturn
  \/ Renumber
  \/ FormatPatch
  \/ FormatDiff

Spec == Init /\ [][Next]_vars

\* a call that has started runs to completion: the code is synchronous and
\* has no suspension point
FairSpec ==
  /\ Spec
  /\ WF_vars(FSEEnter)
  /\ WF_vars(FSEDepth)
  /\ WF_vars(FSEDiag)
  /\ WF_vars(BTEnter)
  /\ WF_vars(BTLevel)
  /\ WF_vars(BTReturn)

\* ------------------------------------------------------------ computeDiff
\* the texts of the README's Quick Start
HelloWorld == <<"H", "e", "l", "l", "o", " ", "w", "o", "r", "l", "d">>
HelloUniverse ==
  <<"H", "e", "l", "l", "o", " ", "u", "n", "i", "v", "e", "r", "s", "e">>

\* what a caller passes to computeDiff: strings of up to MaxStr characters,
\* the README's two texts, and a value that is not a string
TextArgs ==
  SeqsUpTo({"a", NL}, MaxStr) \cup {HelloWorld, HelloUniverse, NotAString}

TextInit ==
  /\ oldText \in TextArgs
  /\ newText \in TextArgs
  /\ oldTexts = <<>>
  /\ newTexts = <<>>
  /\ oldLines = <<>>
  /\ newLines = <<>>
  /\ pc = "idle"
  /\ caller = "none"
  /\ v = NoStore
  /\ trace = <<>>
  /\ d = 0
  /\ k = 0
  /\ x = 0
  /\ y = 0
  /\ i = 0
  /\ edits = <<>>
  /\ idxs = <<>>
  /\ reads = {}
  /\ err = "none"
  /\ traceRet = FALSE
  /\ result = NoResult
  /\ resultIdx = <<>>
  /\ prev = NoPrev
  /\ patch = NoPatch
  /\ patchArgs = NoArgs
  /\ diffText = NoText
  /\ fwd = <<>>
  /\ shadow = <<>>

\* computeDiff(oldText, newText): the two splitLines calls, each throwing on
\* a value that is not a string, then as diffLines
ComputeDiff ==
  /\ pc = "idle"
  /\ FreshLocals
  /\ caller' = "computeDiff"
  /\ IF ~IsString(oldText)
       THEN /\ err' = "invalid"
            /\ pc' = "failed"
            /\ UNCHANGED <<oldLines, newLines, trace, traceRet, result,
                           resultIdx>>
     ELSE IF ~IsString(newText)
       THEN /\ oldLines' = splitLines(oldText)
            /\ err' = "invalid"
            /\ pc' = "failed"
            /\ UNCHANGED <<newLines, trace, traceRet, result, resultIdx>>
     ELSE /\ oldLines' = splitLines(oldText)
          /\ newLines' = splitLines(newText)
          /\ UNCHANGED err
          /\ IF Len(splitLines(oldText)) = 0 /\ Len(splitLines(newText)) = 0
               THEN /\ result' = [edits |-> <<>>, editDistance |-> 0]
                    /\ resultIdx' = <<>>
                    /\ UNCHANGED <<pc, trace, traceRet>>
               ELSE /\ pc' = "fse"
                    /\ trace' = <<>>
                    /\ traceRet' = FALSE
                    /\ UNCHANGED <<result, resultIdx>>
  /\ UNCHANGED <<oldTexts, newTexts, prev, oldText, newText>>

TextNext ==
  \/ ComputeDiff
  \/ FSEEnter
  \/ FSEDepth
  \/ FSEDiag
  \/ BTEnter
  \/ BTLevel
  \/ BTReturn

TextSpec == TextInit /\ [][TextNext]_vars

\* ----------------------------------------------- the store on its own
\* BipolarArray is exported: a store of capacity 2 * max + 1, max up to
\* MaxCap, on which a user calls set and get with indices in [-max, max]
StoreInit ==
  /\ \E max \in 0..MaxCap :
       /\ v = NewBipolarArray(2 * max + 1, 0)
       /\ shadow = [kk \in (-max)..max |-> 0]
  /\ caller = "store"
  /\ oldTexts = <<>>
  /\ newTexts = <<>>
  /\ oldLines = <<>>
  /\ newLines = <<>>
  /\ pc = "idle"
  /\ trace = <<>>
  /\ d = 0
  /\ k = 0
  /\ x = 0
  /\ y = 0
  /\ i = 0
  /\ edits = <<>>
  /\ idxs = <<>>
  /\ reads = {}
  /\ err = "none"
  /\ traceRet = FALSE
  /\ result = NoResult
  /\ resultIdx = <<>>
  /\ prev = NoPrev
  /\ patch = NoPatch
  /\ patchArgs = NoArgs
  /\ oldText = NoText
  /\ newText = NoText
  /\ diffText = NoText
  /\ fwd = <<>>

\* v.set(index, value); what an earlier get returned is no longer at hand
StoreSet ==
  /\ pc = "idle"
  /\ caller = "store"
  /\ \E index \in DOMAIN shadow, value \in 0..MaxCap :
       /\ v' = Set(v, index, value)
       /\ shadow' = [shadow EXCEPT ![index] = value]
  /\ k' = 0
  /\ x' = 0
  /\ reads' = {}
  /\ UNCHANGED <<oldTexts, newTexts, oldLines, newLines, pc, caller, trace, d,
                 y, i, edits, idxs, err, traceRet, result, resultIdx, prev,
                 patch, patchArgs, oldText, newText, diffText, fwd>>

\* x = v.get(k), which throws when the slot holds undefined
StoreGet ==
  /\ pc = "idle"
  /\ caller = "store"
  /\ \E index \in DOMAIN shadow :
       /\ k' = index
       /\ reads' = {index}
       /\ IF InBlock(v, index)
            THEN /\ x' = Get(v, index)
                 /\ UNCHANGED <<pc, err>>
            ELSE /\ err' = "oob"
                 /\ pc' = "failed"
                 /\ UNCHANGED x
  /\ UNCHANGED <<oldTexts, newTexts, oldLines, newLines, caller, v, trace, d,
                 y, i, edits, idxs, traceRet, result, resultIdx, prev, patch,
                 patchArgs, oldText, newText, diffText, fwd, shadow>>

StoreNext ==
  \/ StoreSet
  \/ StoreGet

StoreSpec == StoreInit /\ [][StoreNext]_vars

\* --------------------------------------------- the formatters on their own
\* formatDiff and formatPatch are exported and take any DiffOutput: edit
\* scripts of up to MaxOps operations, and scripts of up to MaxLen operations
\* in which an operation may also be an equal of empty lines, have a missing
\* side (the type DiffEdit allows it) or carry a text with a newline in it
\* (diffLines takes whatever DiffLine records its caller built).
EditKinds ==
  { createEdit("equal", createLine(1, <<"a">>), createLine(1, <<"a">>)),
    createEdit("delete", createLine(1, <<"a">>), Undefined),
    createEdit("delete", createLine(1, <<>>), Undefined),
    createEdit("insert", Undefined, createLine(1, <<"a">>)),
    createEdit("insert", Undefined, createLine(1, <<>>)) }

OtherKinds ==
  { createEdit("equal", createLine(1, <<>>), createLine(1, <<>>)),
    createEdit("insert", Undefined, createLine(1, <<NL>>)),
    createEdit("equal", Undefined, createLine(1, <<"a">>)),
    createEdit("delete", Undefined, Undefined),
    createEdit("insert", createLine(1, <<"a">>), Undefined) }

DiffOutputs ==
  { [edits |-> es,
     editDistance |-> Cardinality({j \in 1..Len(es) : es[j].type # "equal"})] :
      es \in SeqsUpTo(EditKinds, MaxOps)
              \cup SeqsUpTo(EditKinds \cup OtherKinds, MaxLen) }

RenderInit ==
  /\ result \in DiffOutputs
  /\ oldTexts = <<>>
  /\ newTexts = <<>>
  /\ oldLines = <<>>
  /\ newLines = <<>>
  /\ pc = "idle"
  /\ caller = "none"
  /\ v = NoStore
  /\ trace = <<>>
  /\ d = 0
  /\ k = 0
  /\ x = 0
  /\ y = 0
  /\ i = 0
  /\ edits = <<>>
  /\ idxs = <<>>
  /\ reads = {}
  /\ err = "none"
  /\ traceRet = FALSE
  /\ resultIdx = <<>>
  /\ prev = NoPrev
  /\ patch = NoPatch
  /\ patchArgs = NoArgs
  /\ oldText = NoText
  /\ newText = NoText
  /\ diffText = NoText
  /\ fwd = <<>>
  /\ shadow = <<>>

RenderNext ==
  \/ FormatPatch
  \/ FormatDiff

RenderSpec == RenderInit /\ [][RenderNext]_vars

\* ================================================================ claims
RECURSIVE LCS(_, _)
LCS(a, b) ==
  IF Len(a) = 0 \/ Len(b) = 0 THEN 0
  ELSE IF a[1] = b[1] THEN 1 + LCS(Tail(a), Tail(b))
  ELSE Max(LCS(Tail(a), b), LCS(a, Tail(b)))

Returned == result # NoResult

\* the subsequence of the edits whose type is in types
RECURSIVE SelectOps(_, _)
SelectOps(es, types) ==
  IF es = <<>> THEN <<>>
  ELSE (IF es[1].type \in types THEN <<es[1]>> ELSE <<>>)
       \o SelectOps(Tail(es), types)

NonEqualCount(es) == Len(SelectOps(es, {"insert", "delete"}))

OldSide(es) ==
  LET sel == SelectOps(es, {"delete", "equal"})
  IN  [j \in 1..Len(sel) |-> TextOf(sel[j].oldLine)]

NewSide(es) ==
  LET sel == SelectOps(es, {"insert", "equal"})
  IN  [j \in 1..Len(sel) |-> TextOf(sel[j].newLine)]

\* C1: the editDistance diffLines returns is the minimum number of single-line
\* insertions and deletions turning old into new: n + m - 2 * LCS(old, new),
\* LCS taken under equality of line texts.
C1_MinimalDistance ==
  Returned =>
    result.editDistance = n + m - 2 * LCS(TextsOf(oldLines), TextsOf(newLines))

C1_Witness ==
  /\ Returned
  /\ LCS(TextsOf(oldLines), TextsOf(newLines)) >= 1
  /\ result.editDistance >= 3
  /\ n # m

\* C2: round trip: the texts of the delete and equal operations, in script
\* order, are the old sequence; those of the insert and equal operations are
\* the new sequence.
C2_RoundTrip ==
  Returned =>
    /\ OldSide(result.edits) = TextsOf(oldLines)
    /\ NewSide(result.edits) = TextsOf(newLines)

C2_Witness ==
  /\ Returned
  /\ \E a, b, c \in 1..Len(result.edits) :
       /\ result.edits[a].type = "equal"
       /\ result.edits[b].type = "delete"
       /\ result.edits[c].type = "insert"

\* C3 as stated: for all inputs, both empty included, editDistance equals the
\* length of the trace findShortestEdit produces minus 1 and the number of
\* non-equal operations of the edit script.
C3_AsStated ==
  (Returned /\ traceRet) =>
    /\ result.editDistance = Len(trace) - 1
    /\ result.editDistance = NonEqualCount(result.edits)

\* C3 amended: editDistance always equals the number of non-equal operations
\* of the edit script; it equals the trace length minus 1 when the inputs are
\* not both empty; for two empty inputs findShortestEdit returns the empty
\* trace and editDistance is 0.
C3_DistanceTraceOps ==
  /\ Returned => result.editDistance = NonEqualCount(result.edits)
  /\ (Returned /\ traceRet /\ n + m > 0) => result.editDistance = Len(trace) - 1
  /\ (Returned /\ traceRet /\ n + m = 0) => (trace = <<>> /\ result.editDistance = 0)

C3_Witness ==
  /\ Returned
  /\ traceRet
  /\ Len(trace) >= 3
  /\ NonEqualCount(result.edits) >= 2
  /\ Len(result.edits) > NonEqualCount(result.edits)

WellFormed(e) ==
  CASE e.type = "equal" ->
         /\ e.oldLine # Undefined
         /\ e.newLine # Undefined
         /\ e.oldLine.text = e.newLine.text
    [] e.type = "delete" -> e.oldLine # Undefined /\ e.newLine = Undefined
    [] e.type = "insert" -> e.newLine # Undefined /\ e.oldLine = Undefined
    [] OTHER -> FALSE

\* C4: every operation of a returned edit script is well formed: equal has
\* both records, with equal texts; delete has an old record and no new one;
\* insert has a new record and no old one.
C4_WellFormedEdits ==
  Returned => \A j \in 1..Len(result.edits) : WellFormed(result.edits[j])

C4_Witness ==
  /\ Returned
  /\ Len(result.edits) >= 4
  /\ \E a, b, c \in 1..Len(result.edits) :
       /\ result.edits[a].type = "equal"
       /\ result.edits[b].type = "delete"
       /\ result.edits[c].type = "insert"
       /\ a < b /\ b < c

\* C5: inputs with the same texts position by position give editDistance 0
\* and one equal operation per line, in order, pairing the i-th old record
\* with the i-th new record.
C5_IdenticalInputs ==
  (Returned /\ TextsOf(oldLines) = TextsOf(newLines)) =>
    /\ result.editDistance = 0
    /\ result.edits =
         [j \in 1..n |-> createEdit("equal", oldLines[j], newLines[j])]

C5_Witness ==
  /\ Returned
  /\ TextsOf(oldLines) = TextsOf(newLines)
  /\ n >= 2
  /\ oldLines # newLines
  /\ \E a, b \in 1..n : oldLines[a].text # oldLines[b].text

NoSharedText ==
  \A a \in 1..n, b \in 1..m : oldLines[a].text # newLines[b].text

\* C6: inputs that share no line text and are not both empty give
\* editDistance n + m and the n old lines as deletes, in old order, followed
\* by the m new lines as inserts, in new order.
C6_DisjointInputs ==
  (Returned /\ NoSharedText /\ n + m > 0) =>
    /\ result.editDistance = n + m
    /\ result.edits =
         [j \in 1..(n + m) |->
            IF j <= n THEN createEdit("delete", oldLines[j], Undefined)
            ELSE createEdit("insert", Undefined, newLines[j - n])]

C6_Witness ==
  /\ Returned
  /\ NoSharedText
  /\ n >= 2
  /\ m >= 2

Searching == pc \in {"depth", "diag"}

\* the state right after findShortestEdit returned from its diagonal loop
JustReturned ==
  /\ traceRet
  /\ n + m > 0
  /\ pc = "bt" \/ (pc = "idle" /\ caller = "api")

\* what holds of the search in every state
C7_Safety ==
  /\ err # "impossible"
  /\ Searching => d <= n + m
  /\ JustReturned =>
       /\ x >= n
       /\ y >= m
       /\ Len(trace) = d + 1
       /\ trace[Len(trace)].d = d
       /\ d <= n + m

\* C7: for inputs that are not both empty findShortestEdit returns its trace
\* from inside the depth loop at a depth d <= n + m; 'Impossible: no path
\* found' is never raised.
C7_SearchReturns == [](C7_Safety) /\ ((pc = "fse") ~> traceRet)

C7_Witness ==
  /\ traceRet
  /\ pc = "idle"
  /\ caller = "api"
  /\ Len(trace) = n + m + 1
  /\ n >= 1
  /\ m >= 1

\* C8: every read of the diagonal store by the forward search and by the
\* backtracker uses a logical index in [-(n+m), n+m] that resolves to a slot
\* of the backing block; the out-of-bounds error is never raised.
C8_ReadsInRange ==
  /\ err # "oob"
  /\ \A r \in reads :
       /\ r >= -(n + m)
       /\ r <= n + m
       /\ Offset(NewBipolarArray(2 * (n + m) + 1, 0), r) \in 0..(2 * (n + m))

C8_Witness ==
  /\ Returned
  /\ pc = "idle"
  /\ n + m >= 2
  /\ (n + m - 1) \in reads
  /\ -(n + m - 1) \in reads

\* C9: matching depends on text only: two diffLines calls on the same texts
\* with different number fields return the same editDistance and the same
\* operation types referring to the same input positions.
C9_NumbersIgnored ==
  (Returned /\ prev.set) =>
    /\ result.editDistance = prev.editDistance
    /\ [j \in 1..Len(result.edits) |-> result.edits[j].type] = prev.types
    /\ resultIdx = prev.idxs

C9_Witness ==
  /\ Returned
  /\ prev.set
  /\ prev.oldNumbers # [j \in 1..n |-> oldLines[j].number]
  /\ result.editDistance >= 1
  /\ Len(result.edits) > result.editDistance

IsHunkHeader(line) == Len(line) >= 2 /\ line[1] = "@" /\ line[2] = "@"

HasHunkHeader(p) ==
  \E j \in 1..Len(SplitNL(p)) : IsHunkHeader(SplitNL(p)[j])

\* the two lists differ in line text at position j: one of them has a line
\* there and the other has none, or both have one and the texts differ
SidesDiffer(ol, nl, j) ==
  \/ Present(ol, j) # Present(nl, j)
  \/ Present(ol, j) /\ Present(nl, j) /\ ol[j + 1] # nl[j + 1]

\* a change region exists exactly when some position differs
RegionExists(ol, nl) ==
  \E j \in 0..(Max(Len(ol), Len(nl)) - 1) : SidesDiffer(ol, nl, j)

Patched == patch # NoPatch

\* the name or timestamp in effect for argument j of the formatPatch call
ArgInEffect(j) ==
  IF patchArgs[j] # Omitted THEN patchArgs[j]
  ELSE IF j = 1 THEN <<"o", "l", "d">>
  ELSE IF j = 2 THEN <<"n", "e", "w">>
  ELSE <<>>

HeaderPair ==
  <<HeaderLine(<<"-", "-", "-">>, ArgInEffect(1), ArgInEffect(3)),
    HeaderLine(<<"+", "+", "+">>, ArgInEffect(2), ArgInEffect(4))>>

TwoHeaderLines == JoinNL(HeaderPair)

\* C10: formatPatch emits a hunk header if and only if at least one change
\* region exists, a change region being a maximal run of positions at which
\* the old-side list and the new-side list differ in line text; without a
\* change region the output is exactly the two header lines.
C10_HunkIffRegion ==
  Patched =>
    LET ol == OldList(result.edits)
        nl == NewList(result.edits)
    IN  /\ HasHunkHeader(patch) <=> RegionExists(ol, nl)
        /\ ~RegionExists(ol, nl) => patch = TwoHeaderLines

\* the rendering of window position j as stated: decided by which sides have
\* a line at j and, when both have one, by whether the texts are the same
StatedHunkLine(ol, nl, j) ==
  IF Present(ol, j) /\ Present(nl, j)
    THEN IF ol[j + 1] = nl[j + 1]
           THEN << <<" ">> \o ol[j + 1] >>
           ELSE << <<"-">> \o ol[j + 1], <<"+">> \o nl[j + 1] >>
  ELSE IF Present(nl, j) THEN << <<"+">> \o nl[j + 1] >>
  ELSE IF Present(ol, j) THEN << <<"-">> \o ol[j + 1] >>
  ELSE <<>>

RECURSIVE StatedHunkBody(_, _, _, _)
StatedHunkBody(ol, nl, j, hunkEnd) ==
  IF j > hunkEnd THEN <<>>
  ELSE StatedHunkLine(ol, nl, j) \o StatedHunkBody(ol, nl, j + 1, hunkEnd)

WindowStart(region) == Max(0, region.start - 3)
WindowEnd(ol, nl, region) == Min(Max(Len(ol), Len(nl)) - 1, region.end + 3)

\* C11 as stated: inside each hunk every window position is rendered by the
\* sides present at it: same text on both sides gives one context line, an
\* absent old side one '+' line, an absent new side one '-' line, two present
\* sides with differing texts a '-' line immediately followed by a '+' line.
C11_HunkLinesAsStated ==
  Patched =>
    LET ol == OldList(result.edits)
        nl == NewList(result.edits)
        regions == ChangeRegions(ol, nl)
        out == SplitNL(patch)
    IN  \A r \in 1..Len(regions) :
          \E from \in 1..Len(out) :
            /\ IsHunkHeader(out[from])
            /\ Cardinality({h \in 1..from : IsHunkHeader(out[h])}) = r
            /\ LET body == StatedHunkBody(ol, nl, WindowStart(regions[r]),
                                          WindowEnd(ol, nl, regions[r]))
               IN  /\ from + Len(body) <= Len(out)
                   /\ \A b \in 1..Len(body) : out[from + b] = body[b]
                   /\ from + Len(body) = Len(out)
                       \/ IsHunkHeader(out[from + Len(body) + 1])

\* entries of the list at the positions from..to
EntriesIn(list, from, to) == {j \in from..to : j >= 0 /\ j < Len(list)}

StatedHeader(ol, nl, region) ==
  LET ws == WindowStart(region)
      we == WindowEnd(ol, nl, region)
  IN  <<"@", "@", " ", "-">>
      \o NumStr(1 + Cardinality(EntriesIn(ol, 0, ws - 1))) \o <<",">>
      \o NumStr(Cardinality(EntriesIn(ol, ws, we)))
      \o <<" ", "+">>
      \o NumStr(1 + Cardinality(EntriesIn(nl, 0, ws - 1))) \o <<",">>
      \o NumStr(Cardinality(EntriesIn(nl, ws, we)))
      \o <<" ", "@", "@">>

\* for each region in turn: the stated header, then the lines of the positions
\* of the stated window
RECURSIVE StatedHunks(_, _, _)
StatedHunks(ol, nl, regions) ==
  IF regions = <<>> THEN <<>>
  ELSE <<StatedHeader(ol, nl, regions[1])>>
       \o HunkBody(ol, nl, WindowStart(regions[1]), WindowEnd(ol, nl, regions[1]))
       \o StatedHunks(ol, nl, Tail(regions))

\* C12: for each change region [start, end] the hunk covers the window
\* [max(0, start - 3), min(L - 1, end + 3)], L the longer of the two lists;
\* its header has oldStart/newStart = 1 + the number of entries of the old/new
\* list before the window and oldCount/newCount = the number of entries of
\* the old/new list inside the window.
C12_HunkWindow ==
  Patched =>
    LET ol == OldList(result.edits)
        nl == NewList(result.edits)
        regions == ChangeRegions(ol, nl)
    IN  patch = JoinNL(HeaderPair \o StatedHunks(ol, nl, regions))

C12_Witness ==
  /\ Patched
  /\ LET ol == OldList(result.edits)
         nl == NewList(result.edits)
         regions == ChangeRegions(ol, nl)
     IN  /\ Len(regions) >= 2
         /\ Len(ol) >= 1
         /\ Len(ol) < Len(nl)
         /\ \E r \in 1..Len(regions) : WindowStart(regions[r]) > 0
         /\ \E r \in 1..Len(regions) :
              WindowEnd(ol, nl, regions[r]) < Len(nl) - 1

HasTab(line) == \E j \in 1..Len(line) : line[j] = "\t"

\* C13: the first two output lines of formatPatch are '--- <oldName>' and
\* '+++ <newName>', the names being 'old' and 'new' when left out; a tab and
\* the timestamp follow on a header line exactly when that side's timestamp
\* is non-empty.
C13_HeaderLines ==
  Patched =>
    LET out == SplitNL(patch)
    IN  /\ Len(out) >= 2
        /\ out[1] = <<"-", "-", "-", " ">> \o ArgInEffect(1)
                     \o (IF ArgInEffect(3) = <<>> THEN <<>>
                         ELSE <<"\t">> \o ArgInEffect(3))
        /\ out[2] = <<"+", "+", "+", " ">> \o ArgInEffect(2)
                     \o (IF ArgInEffect(4) = <<>> THEN <<>>
                         ELSE <<"\t">> \o ArgInEffect(4))
        /\ HasTab(out[1]) <=> ArgInEffect(3) # <<>>
        /\ HasTab(out[2]) <=> ArgInEffect(4) # <<>>

C13_Witness ==
  /\ Patched
  /\ patchArgs[1] # Omitted
  /\ patchArgs[3] # Omitted
  /\ patchArgs[3] # <<>>
  /\ patchArgs[4] = Omitted
  /\ HasHunkHeader(patch)

Formatted == diffText # NoText

\* the line stated for one operation: the mark of its type, a space, and the
\* text of its side, empty when the side is missing
StatedDiffLine(e) ==
  LET side == IF e.type = "insert" THEN e.newLine ELSE e.oldLine
      mark == IF e.type = "equal" THEN " "
              ELSE IF e.type = "delete" THEN "-" ELSE "+"
  IN  <<mark, " ">> \o (IF side = Undefined THEN <<>> ELSE side.text)

\* C14: formatDiff renders the k-th operation as the k-th output line: two
\* spaces and the old-side text for equal, '- ' and the old-side text for
\* delete, '+ ' and the new-side text for insert, a missing side giving the
\* empty text; the lines are joined by newline in edit-script order.
C14_FlatLines ==
  Formatted =>
    diffText = JoinNL([j \in 1..Len(result.edits) |->
                         StatedDiffLine(result.edits[j])])

C14_Witness ==
  /\ Formatted
  /\ Len(result.edits) >= 3
  /\ result.edits[1].type = "equal"
  /\ result.edits[1].oldLine = Undefined
  /\ result.edits[1].newLine # Undefined
  /\ result.edits[2].type = "delete"
  /\ result.edits[2].oldLine # Undefined
  /\ result.edits[3].type = "insert"
  /\ result.edits[3].newLine # Undefined
  /\ result.edits[3].newLine.text # <<>>

NoNewlineIn(es) ==
  \A j \in 1..Len(es) :
    /\ \A c \in 1..Len(TextOrEmpty(es[j].oldLine)) :
         TextOrEmpty(es[j].oldLine)[c] # NL
    /\ \A c \in 1..Len(TextOrEmpty(es[j].newLine)) :
         TextOrEmpty(es[j].newLine)[c] # NL

\* C15 as stated: for every DiffOutput the number of lines of the formatDiff
\* output, split on newline, equals the length of the edit script.
C15_LineCountAsStated ==
  Formatted => Len(SplitNL(diffText)) = Len(result.edits)

\* C15 amended: for a DiffOutput whose edit script is not empty and whose line
\* texts hold no newline, the number of lines of the formatDiff output equals
\* the length of the edit script; for the empty edit script the output is the
\* empty string, which splits into one empty line.
C15_LineCount ==
  Formatted =>
    /\ (result.edits # <<>> /\ NoNewlineIn(result.edits)) =>
         Len(SplitNL(diffText)) = Len(result.edits)
    /\ result.edits = <<>> => (diffText = <<>> /\ SplitNL(diffText) = <<<<>>>>)

C15_Witness ==
  /\ Formatted
  /\ Len(result.edits) = MaxOps
  /\ \E j \in 1..Len(result.edits) : TextOrEmpty(result.edits[j].newLine) = <<>>
  /\ \E j \in 1..Len(result.edits) : result.edits[j].type = "equal"
  /\ \E j \in 1..Len(result.edits) : result.edits[j].type = "delete"

NewlinesIn(str) == Cardinality({c \in 1..Len(str) : str[c] = NL})

\* what is stated of the records splitLines returns for a string
SplitAsStated(str, lines) ==
  IF str = <<>> THEN lines = <<>>
  ELSE /\ Len(lines) = NewlinesIn(str) + 1
       /\ \A j \in 1..Len(lines) :
            /\ lines[j].number = j
            /\ NewlinesIn(lines[j].text) = 0
       /\ JoinNL(TextsOf(lines)) = str

\* C16: splitLines returns no record for the empty string; for a non-empty
\* string with j newlines it returns j + 1 records, the i-th numbered i, whose
\* texts hold no newline and, joined by newline, are the input unchanged.
C16_SplitLines ==
  /\ (caller = "computeDiff" /\ oldText # NotAString) =>
       SplitAsStated(oldText, oldLines)
  /\ (caller = "computeDiff" /\ oldText # NotAString /\ newText # NotAString) =>
       SplitAsStated(newText, newLines)

C16_Witness ==
  /\ caller = "computeDiff"
  /\ oldText # NotAString
  /\ newText = <<>>
  /\ Len(oldLines) = 3
  /\ oldLines[1].text = <<>>
  /\ oldLines[2].text # <<>>
  /\ oldLines[3].text = <<>>

\* C17: when an argument of computeDiff is not a string, splitLines raises
\* the invalid-input error before any search state exists, nothing catches
\* it, and no DiffOutput is returned.
C17_InvalidInput ==
  (caller = "computeDiff" /\ (oldText = NotAString \/ newText = NotAString)) =>
    /\ err = "invalid"
    /\ pc = "failed"
    /\ v = NoStore
    /\ trace = <<>>
    /\ fwd = <<>>
    /\ edits = <<>>
    /\ result = NoResult

C17_Witness ==
  /\ caller = "computeDiff"
  /\ err = "invalid"
  /\ oldText # NotAString
  /\ Len(oldLines) >= 2
  /\ newText = NotAString

ReadmeCall ==
  /\ caller = "computeDiff"
  /\ oldText = HelloWorld
  /\ newText = HelloUniverse
  /\ Returned

AtLevel == pc = "level" /\ err = "none" /\ i >= 0

\* C19: the backtracker inverts the forward search: at every trace level d it
\* stands on the point the forward search stored for diagonal k = x - y at
\* depth d, which is (n, m) at the last level, and the prevK it derives from
\* the level's snapshot is the neighbour diagonal the forward search took as
\* source when it computed diagonal k at depth d; after level 0 it stands on
\* (0, 0).
C19_BacktrackInverts ==
  /\ AtLevel =>
       LET e == trace[i + 1]
       IN  /\ e.d = i
           /\ \E j \in 1..Len(fwd) :
                /\ fwd[j].d = e.d
                /\ fwd[j].k = x - y
                /\ fwd[j].x = x
                /\ PrevK(e.v, x - y, e.d) = fwd[j].src
           /\ i = Len(trace) - 1 => (x = n /\ y = m)
  /\ (pc = "level" /\ err = "none" /\ i < 0) => (x = 0 /\ y = 0)

C19_Witness ==
  /\ AtLevel
  /\ i >= 1
  /\ i < Len(trace) - 1
  /\ x > 0
  /\ y > 0
  /\ x < n
  /\ \E j \in 1..Len(fwd) :
       /\ fwd[j].d = i
       /\ fwd[j].k = x - y
       /\ fwd[j].src = x - y - 1
       /\ fwd[j].x > fwd[j].x0

\* C20 as stated: the starting x of diagonal k at depth d is the stored x of
\* diagonal k + 1, unless k = d or the stored x of diagonal k - 1 is >= the
\* stored x of diagonal k + 1, in which case it is the stored x of diagonal
\* k - 1 plus 1.
C20_StartAsStated ==
  \A j \in 1..Len(fwd) :
    fwd[j].x0 = IF fwd[j].k = fwd[j].d \/ fwd[j].left >= fwd[j].right
                  THEN fwd[j].left + 1
                  ELSE fwd[j].right

\* C20 amended: the starting x of diagonal k at depth d is the stored x of
\* diagonal k + 1 when k = -d, and also when k # d and the stored x of
\* diagonal k - 1 is less than the stored x of diagonal k + 1; in every other
\* case it is the stored x of diagonal k - 1 plus 1.
C20_StartX ==
  \A j \in 1..Len(fwd) :
    fwd[j].x0 = IF fwd[j].k = -fwd[j].d THEN fwd[j].right
                ELSE IF fwd[j].k # fwd[j].d /\ fwd[j].left < fwd[j].right
                  THEN fwd[j].right
                ELSE fwd[j].left + 1

C20_Witness ==
  /\ \E j \in 1..Len(fwd) :
       /\ fwd[j].k # fwd[j].d
       /\ fwd[j].k # -fwd[j].d
       /\ fwd[j].left = fwd[j].right
  /\ \E j \in 1..Len(fwd) :
       /\ fwd[j].k # fwd[j].d
       /\ fwd[j].k # -fwd[j].d
       /\ fwd[j].left < fwd[j].right
  /\ \E j \in 1..Len(fwd) :
       /\ fwd[j].k = -fwd[j].d
       /\ fwd[j].d >= 1
       /\ fwd[j].left >= fwd[j].right

\* what the backtracker is about to do at the level it stands on: the point
\* it steps back to, and the point where the peeling of the equal run stops
LevelPrevX == Get(trace[i + 1].v, PrevK(trace[i + 1].v, x - y, trace[i + 1].d))
LevelPrevY == LevelPrevX - PrevK(trace[i + 1].v, x - y, trace[i + 1].d)
LevelPeeled == Len(PeelEquals(oldLines, newLines, x, y, LevelPrevX, LevelPrevY))
LevelStep ==
  StepEdit(oldLines, newLines, trace[i + 1].d, x - LevelPeeled, y - LevelPeeled,
           LevelPrevX, LevelPrevY)

\* C21: at every trace level with d > 0, once the equal run is peeled off,
\* exactly one of x = prevX and y = prevY holds and exactly one insert or
\* delete is emitted; at the level d = 0 no insert or delete is emitted.
C21_OneStepPerLevel ==
  AtLevel =>
    IF trace[i + 1].d > 0
      THEN /\ (x - LevelPeeled = LevelPrevX) # (y - LevelPeeled = LevelPrevY)
           /\ Len(LevelStep) = 1
           /\ LevelStep[1].type \in {"insert", "delete"}
           /\ LevelStep[1].type = "insert" <=> x - LevelPeeled = LevelPrevX
      ELSE LevelStep = <<>>

C21_Witness ==
  /\ AtLevel
  /\ trace[i + 1].d > 0
  /\ LevelPeeled >= 1
  /\ LevelStep # <<>>
  /\ LevelStep[1].type = "delete"
  /\ \E j \in 1..Len(edits) : edits[j].type = "insert"

\* the indices of the entries of fwd written at a depth below dd to diagonal kk
WritesBefore(kk, dd) ==
  {j \in 1..Len(fwd) : fwd[j].k = kk /\ fwd[j].d < dd}

\* what the live store held for diagonal kk just before depth dd began: the
\* x of the last write to kk at a lower depth, the default 0 without one
HeldBefore(kk, dd) ==
  IF WritesBefore(kk, dd) = {} THEN 0
  ELSE fwd[CHOOSE j \in WritesBefore(kk, dd) :
             \A h \in WritesBefore(kk, dd) : h <= j].x

\* C22: trace[i] has depth i and its snapshot holds what the live store held
\* just before any diagonal of depth i was written (all 0 for i = 0); writes
\* made later to the live store leave the recorded snapshots as they were.
C22_Snapshots ==
  \A j \in 1..Len(trace) :
    /\ trace[j].d = j - 1
    /\ trace[j].v.capacity = 2 * (n + m) + 1
    /\ \A kk \in (-(n + m))..(n + m) :
         Get(trace[j].v, kk) = HeldBefore(kk, j - 1)

C22_Witness ==
  /\ pc = "level"
  /\ Len(trace) >= 4
  /\ trace[2].v # trace[1].v
  /\ trace[3].v # trace[2].v
  /\ trace[Len(trace)].v # v
  /\ \E kk \in 1..(n + m) : Get(trace[Len(trace)].v, -kk) > 0

\* C23: in every edit script diffLines returns no insert is immediately
\* followed by a delete: within a run of consecutive non-equal operations
\* the deletes come before the inserts.
C23_DeletesFirst ==
  Returned =>
    \A j \in 1..(Len(result.edits) - 1) :
      ~(result.edits[j].type = "insert" /\ result.edits[j + 1].type = "delete")

C23_Witness ==
  /\ Returned
  /\ \E j \in 1..(Len(result.edits) - 2) :
       /\ result.edits[j].type = "delete"
       /\ result.edits[j + 1].type = "delete"
       /\ result.edits[j + 2].type = "insert"
  /\ \E j \in 1..Len(result.edits) : result.edits[j].type = "equal"

\* C24 as stated: for every result of diffLines, formatPatch emits at least
\* one hunk when editDistance > 0 and none when editDistance = 0.
C24_HunkIffDistance ==
  Patched => (HasHunkHeader(patch) <=> result.editDistance > 0)

\* C25: the diagonal store is monotone: for every diagonal k the value a
\* snapshot holds for k is >= the value the snapshot before it holds, and a
\* write to a diagonal never lowers the x stored for it.
C25_Monotone ==
  /\ \A j \in 1..(Len(trace) - 1) :
       \A kk \in (-(n + m))..(n + m) :
         Stored(trace[j + 1].v, kk) >= Stored(trace[j].v, kk)
  /\ \A j \in 1..Len(fwd) : fwd[j].x >= HeldBefore(fwd[j].k, fwd[j].d)

C25_Witness ==
  /\ Len(trace) >= 4
  /\ \E kk \in (-(n + m))..(n + m) :
       /\ Stored(trace[2].v, kk) > 0
       /\ Stored(trace[4].v, kk) > Stored(trace[2].v, kk)
  /\ \E kk \in (-(n + m))..(-1) :
       Stored(trace[4].v, kk) > Stored(trace[3].v, kk)

\* C26: in a store of capacity 2 * max + 1 used with indices in [-max, max],
\* get(k) returns the value last set at k, the default if none was, and
\* set(k, v) changes what get returns for no other index: a negative k is
\* kept at offset capacity + k, a non-negative k at offset k, and no two
\* indices of the range share a slot.
C26_StoreFrame ==
  /\ err # "oob"
  /\ \A kk \in DOMAIN shadow :
       /\ InBlock(v, kk)
       /\ Get(v, kk) = shadow[kk]
       /\ v.array[(IF kk < 0 THEN v.capacity + kk ELSE kk) + 1] = shadow[kk]
  /\ \A a, b \in DOMAIN shadow : a # b => Offset(v, a) # Offset(v, b)
  /\ caller = "store" => \A r \in reads : x = shadow[r]

C26_Witness ==
  /\ caller = "store"
  /\ v.capacity = 2 * MaxCap + 1
  /\ reads = {-1}
  /\ x = MaxCap
  /\ shadow[1] # shadow[-1]
  /\ shadow[-MaxCap] = 1
  /\ shadow[MaxCap] > 1
  /\ shadow[0] = 0

\* C27 as stated: every x the forward search writes to a diagonal k is a point
\* of the edit graph: 0 <= x <= n and 0 <= x - k <= m.
C27_InGraphAsStated ==
  \A j \in 1..Len(fwd) :
    /\ 0 <= fwd[j].x
    /\ fwd[j].x <= n
    /\ 0 <= fwd[j].x - fwd[j].k
    /\ fwd[j].x - fwd[j].k <= m

\* C27 amended: every x the forward search writes to a diagonal k has
\* 0 <= x and 0 <= x - k and x + (x - k) <= n + m. The x may exceed n, or
\* x - k may exceed m, and then the write is the starting point of the
\* diagonal, which the snake did not extend; a diagonal that starts inside
\* the edit graph is written inside it.
C27_WrittenPoints ==
  \A j \in 1..Len(fwd) :
    /\ 0 <= fwd[j].x
    /\ 0 <= fwd[j].x - fwd[j].k
    /\ fwd[j].x + (fwd[j].x - fwd[j].k) <= n + m
    /\ (fwd[j].x > n \/ fwd[j].x - fwd[j].k > m) => fwd[j].x = fwd[j].x0
    /\ (fwd[j].x0 <= n /\ fwd[j].x0 - fwd[j].k <= m)
         => (fwd[j].x <= n /\ fwd[j].x - fwd[j].k <= m)

C27_Witness ==
  /\ \E j \in 1..Len(fwd) : fwd[j].x > n
  /\ \E j \in 1..Len(fwd) : fwd[j].x - fwd[j].k > m
  /\ \E j \in 1..Len(fwd) : fwd[j].x > fwd[j].x0
====
